---- MODULE Spec2Model ----
(***************************************************************************)
(* Model of src/peft/tuners/prefix_tuning.py: PrefixTuningConfig and the   *)
(* PrefixEncoder module (construction and forward).                        *)
(*                                                                         *)
(* Tensors are sequences: a rank-3 tensor is a sequence (batch) of         *)
(* sequences (tokens) of sequences (features) of integers; an index tensor *)
(* is a sequence (batch) of sequences of integers.  Values are integers:   *)
(* linear layers, ReLU and the residual sum are computed exactly, tanh and *)
(* layer normalisation are rounded to the nearest integer.                 *)
(***************************************************************************)
EXTENDS Integers, Sequences, FiniteSets, TLC

VARIABLES
    pc,      \* "config": configuration built, encoder not yet constructed;
             \* "ready": __init__ returned; "ctor_error": __init__ raised
    config,  \* the PrefixTuningConfig handed to __init__
    self,    \* the PrefixEncoder object (its attributes)
    error,   \* the exception __init__ raised ("" when none)
    prefix,  \* the index tensor of the latest forward call
    out,     \* the outcome of the latest forward call, with forward's locals
    ncalls,  \* number of forward calls made so far
    repeat   \* history: the latest forward call repeated the input of the one before

vars == <<pc, config, self, error, prefix, out, ncalls, repeat>>

\* ---------------------------------------------------------------- bounds
MaxTokenDim == 2
MaxLayers == 2
MaxVirtualTokens == 2
MaxHidden == 2
MaxBatch == 2
MaxSeed == 1
MaxCalls == 2

\* encoder_hidden_size defaults to None
None == -1

\* ---------------------------------------------------------------- helpers
RECURSIVE SumTo(_, _)
SumTo(f, n) == IF n = 0 THEN 0 ELSE f[n] + SumTo(f, n - 1)

\* sum of the entries of a sequence of integers
Sum(v) == SumTo(v, Len(v))

Sgn(a) == IF a > 0 THEN 1 ELSE IF a < 0 THEN 0 - 1 ELSE 0

\* shape of a rank-3 tensor, <<>> for the absent tensor
Shape(t) ==
    IF t = <<>> THEN <<>> ELSE <<Len(t), Len(t[1]), Len(t[1][1])>>

Width(t) == Len(t[1][1])

\* ------------------------------------------------------- configuration
PrefixTuningConfig ==
    [token_dim : {1, MaxTokenDim},
     num_layers : {1, MaxLayers},
     num_virtual_tokens : {1, MaxVirtualTokens},
     encoder_hidden_size : {None, 1, MaxHidden},
     prefix_projection : BOOLEAN,
     use_residual_connect : BOOLEAN,
     use_residual_block : BOOLEAN,
     inference_mode : BOOLEAN]

\* ------------------------------------------------------------- layers
\* Every layer is a record [op, in_features, out_features, weight, bias];
\* a layer constructor returns [err, layer].

NoLayer ==
    [op |-> "none", in_features |-> 0, out_features |-> 0,
     weight |-> <<>>, bias |-> <<>>]

\* parameter values the constructor may draw: seed 0 makes a linear map the
\* identity (weight 1 on the diagonal, bias 0), other seeds a fixed pattern
LinearWeight(seed, o, i) ==
    IF seed = 0 THEN (IF o = i THEN 1 ELSE 0)
    ELSE ((seed + o + 2 * i) % 3) - 1

LinearBias(seed, o) ==
    IF seed = 0 THEN 0 ELSE ((seed + o) % 3) - 1

\* torch.nn.Linear(in_features, out_features): allocating the weight with a
\* None dimension raises TypeError
Linear(in_features, out_features, seed) ==
    IF in_features = None \/ out_features = None
    THEN [err |-> "TypeError", layer |-> NoLayer]
    ELSE [err |-> "",
          layer |->
            [op |-> "Linear",
             in_features |-> in_features,
             out_features |-> out_features,
             weight |-> [o \in 1..out_features |->
                           [i \in 1..in_features |-> LinearWeight(seed, o, i)]],
             bias |-> [o \in 1..out_features |-> LinearBias(seed, o)]]]

Tanh ==
    [err |-> "",
     layer |-> [op |-> "Tanh", in_features |-> 0, out_features |-> 0,
                weight |-> <<>>, bias |-> <<>>]]

ReLU ==
    [err |-> "",
     layer |-> [op |-> "ReLU", in_features |-> 0, out_features |-> 0,
                weight |-> <<>>, bias |-> <<>>]]

\* torch.nn.LayerNorm(normalized_shape): elementwise affine, weight 1, bias 0
LayerNorm(normalized_shape) ==
    [err |-> "",
     layer |-> [op |-> "LayerNorm",
                in_features |-> normalized_shape,
                out_features |-> normalized_shape,
                weight |-> <<[i \in 1..normalized_shape |-> 1]>>,
                bias |-> [i \in 1..normalized_shape |-> 0]]]

\* torch.nn.Sequential(*layers): the arguments are evaluated first, so the
\* first failing layer constructor raises
Sequential(ctors) ==
    IF \E k \in 1..Len(ctors) : ctors[k].err # ""
    THEN [err |-> ctors[CHOOSE k \in 1..Len(ctors) :
                          /\ ctors[k].err # ""
                          /\ \A j \in 1..(k - 1) : ctors[j].err = ""].err,
          layers |-> <<>>]
    ELSE [err |-> "", layers |-> [k \in 1..Len(ctors) |-> ctors[k].layer]]

\* torch.nn.Embedding(num_embeddings, embedding_dim)
EmbeddingWeight(seed, n, d) == ((seed + 2 * n + d) % 5) - 2

Embedding(num_embeddings, embedding_dim, seed) ==
    [num_embeddings |-> num_embeddings,
     embedding_dim |-> embedding_dim,
     weight |-> [n \in 1..num_embeddings |->
                   [d \in 1..embedding_dim |-> EmbeddingWeight(seed, n, d)]]]

NoEmbedding == [num_embeddings |-> 0, embedding_dim |-> 0, weight |-> <<>>]

\* ------------------------------------------------- layer application
\* every application returns [err, val]

LinearVec(l, v) ==
    [o \in 1..l.out_features |->
        Sum([i \in 1..l.in_features |-> l.weight[o][i] * v[i]]) + l.bias[o]]

TanhVec(v) == [i \in 1..Len(v) |-> Sgn(v[i])]

ReLUVec(v) == [i \in 1..Len(v) |-> IF v[i] > 0 THEN v[i] ELSE 0]

\* the integer nearest to sqrt(num / den), for den > 0 and num <= bound^2 * den
RoundSqrtRatio(num, den, bound) ==
    CHOOSE k \in 0..bound :
        /\ (k = 0 \/ (2 * k - 1) * (2 * k - 1) * den <= 4 * num)
        /\ (2 * k + 1) * (2 * k + 1) * den > 4 * num

\* (v - mean) / sqrt(var + eps) * weight + bias over the last dimension
LayerNormVec(l, v) ==
    LET D == Len(v)
        s == Sum(v)
        d == [i \in 1..D |-> D * v[i] - s]
        Q == Sum([i \in 1..D |-> d[i] * d[i]])
    IN  [i \in 1..D |->
            (IF Q = 0 THEN 0
             ELSE Sgn(d[i]) * RoundSqrtRatio(D * d[i] * d[i], Q, D))
            * l.weight[1][i] + l.bias[i]]

LayerVec(l, v) ==
    IF l.op = "Linear" THEN LinearVec(l, v)
    ELSE IF l.op = "Tanh" THEN TanhVec(v)
    ELSE IF l.op = "ReLU" THEN ReLUVec(v)
    ELSE LayerNormVec(l, v)

\* a layer acts on the last dimension; Linear and LayerNorm raise RuntimeError
\* when its size is not the one they were built for
ApplyLayer(l, t) ==
    IF l.op \in {"Linear", "LayerNorm"} /\ Width(t) # l.in_features
    THEN [err |-> "RuntimeError", val |-> <<>>]
    ELSE [err |-> "",
          val |-> [b \in 1..Len(t) |->
                     [n \in 1..Len(t[b]) |-> LayerVec(l, t[b][n])]]]

RECURSIVE ApplyFrom(_, _, _)
ApplyFrom(layers, k, t) ==
    IF k > Len(layers) THEN [err |-> "", val |-> t]
    ELSE LET r == ApplyLayer(layers[k], t)
         IN  IF r.err # "" THEN r ELSE ApplyFrom(layers, k + 1, r.val)

\* calling a module (a sequence of layers) on a tensor
Apply(layers, t) == ApplyFrom(layers, 1, t)

\* embedding lookup: any index outside [0, num_embeddings) raises IndexError
EmbeddingLookup(emb, idx) ==
    IF \E b \in 1..Len(idx) : \E n \in 1..Len(idx[b]) :
          idx[b][n] < 0 \/ idx[b][n] >= emb.num_embeddings
    THEN [err |-> "IndexError", val |-> <<>>]
    ELSE [err |-> "",
          val |-> [b \in 1..Len(idx) |->
                     [n \in 1..Len(idx[b]) |-> emb.weight[idx[b][n] + 1]]]]

\* x + y with broadcasting over the last dimension
TensorAdd(x, y) ==
    IF Width(x) = Width(y)
    THEN [err |-> "",
          val |-> [b \in 1..Len(x) |-> [n \in 1..Len(x[b]) |->
                     [d \in 1..Width(x) |-> x[b][n][d] + y[b][n][d]]]]]
    ELSE IF Width(x) = 1
    THEN [err |-> "",
          val |-> [b \in 1..Len(x) |-> [n \in 1..Len(x[b]) |->
                     [d \in 1..Width(y) |-> x[b][n][1] + y[b][n][d]]]]]
    ELSE IF Width(y) = 1
    THEN [err |-> "",
          val |-> [b \in 1..Len(x) |-> [n \in 1..Len(x[b]) |->
                     [d \in 1..Width(x) |-> x[b][n][d] + y[b][n][1]]]]]
    ELSE [err |-> "RuntimeError", val |-> <<>>]

\* ------------------------------------------------------- PrefixEncoder
NoEncoder ==
    [prefix_projection |-> FALSE,
     use_res_connect |-> FALSE,
     use_res_block |-> FALSE,
     attrs |-> {},
     embedding |-> NoEmbedding,
     transform_1 |-> <<>>,
     transform_2 |-> <<>>,
     transform |-> <<>>]

\* stage A of the residual-connect topology: a single linear map
ResidualConnectStageA(token_dim, seed) ==
    Sequential(<<Linear(token_dim, token_dim, seed)>>)

\* stage A of the residual-block topology
ResidualBlockStageA(token_dim, encoder_hidden_size, seed) ==
    Sequential(<<Linear(token_dim, encoder_hidden_size, seed),
                 ReLU,
                 Linear(encoder_hidden_size, token_dim, seed + 1),
                 LayerNorm(token_dim)>>)

\* mutant: stage B's linear map forgets the factor 2 (keys and values)
ResidualStageB_NoKeyValue(token_dim, num_layers, seed) ==
    Sequential(<<Tanh,
                 Linear(token_dim, num_layers * token_dim, seed + 1)>>)

\* stage B of both residual topologies
ResidualStageB(token_dim, num_layers, seed) ==
    Sequential(<<Tanh,
                 Linear(token_dim, num_layers * 2 * token_dim, seed + 1)>>)

\* the plain two-layer MLP
PlainTransform(token_dim, encoder_hidden_size, num_layers, seed) ==
    Sequential(<<Linear(token_dim, encoder_hidden_size, seed),
                 Tanh,
                 Linear(encoder_hidden_size, num_layers * 2 * token_dim, seed + 1)>>)

\* mutant: use_residual_block is tested before use_residual_connect
ProjectionTopology_BlockFirst(use_res_connect, use_res_block) ==
    IF use_res_block THEN "residual_block"
    ELSE IF use_res_connect THEN "residual_connect"
    ELSE "plain"

\* the if / elif / else of __init__ that picks the projection topology
ProjectionTopology(use_res_connect, use_res_block) ==
    IF use_res_connect THEN "residual_connect"
    ELSE IF use_res_block THEN "residual_block"
    ELSE "plain"

\* PrefixEncoder.__init__(config); seed selects the initial parameter values
\* (seed 0 makes transform_1's first linear map the identity).
\* Returns [err, obj]: when a sub-module constructor raises, no object is
\* returned.  obj.attrs is the set of sub-module attributes that were assigned.
PrefixEncoder(cfg, seed) ==
    LET token_dim == cfg.token_dim
        num_layers == cfg.num_layers
        encoder_hidden_size == cfg.encoder_hidden_size
        num_virtual_tokens == cfg.num_virtual_tokens
        base == [NoEncoder EXCEPT
                   !.prefix_projection = cfg.prefix_projection,
                   !.use_res_connect = cfg.use_residual_connect,
                   !.use_res_block = cfg.use_residual_block]
        Fail(e) == [err |-> e, obj |-> NoEncoder]
    IN
    IF base.prefix_projection /\ ~cfg.inference_mode
    THEN LET withEmb == [base EXCEPT
                           !.embedding = Embedding(num_virtual_tokens, token_dim, seed),
                           !.attrs = {"embedding"}]
             topology == ProjectionTopology(base.use_res_connect, base.use_res_block)
         IN
         IF topology = "residual_connect"
         THEN LET t1 == ResidualConnectStageA(token_dim, seed)
                  t2 == ResidualStageB(token_dim, num_layers, seed)
              IN  IF t1.err # "" THEN Fail(t1.err)
                  ELSE IF t2.err # "" THEN Fail(t2.err)
                  ELSE [err |-> "",
                        obj |-> [withEmb EXCEPT
                                   !.transform_1 = t1.layers,
                                   !.transform_2 = t2.layers,
                                   !.attrs = {"embedding", "transform_1", "transform_2"}]]
         ELSE IF topology = "residual_block"
         THEN LET t1 == ResidualBlockStageA(token_dim, encoder_hidden_size, seed)
                  t2 == ResidualStageB(token_dim, num_layers, seed)
              IN  IF t1.err # "" THEN Fail(t1.err)
                  ELSE IF t2.err # "" THEN Fail(t2.err)
                  ELSE [err |-> "",
                        obj |-> [withEmb EXCEPT
                                   !.transform_1 = t1.layers,
                                   !.transform_2 = t2.layers,
                                   !.attrs = {"embedding", "transform_1", "transform_2"}]]
         ELSE LET t == PlainTransform(token_dim, encoder_hidden_size, num_layers, seed)
              IN  IF t.err # "" THEN Fail(t.err)
                  ELSE [err |-> "",
                        obj |-> [withEmb EXCEPT
                                   !.transform = t.layers,
                                   !.attrs = {"embedding", "transform"}]]
    ELSE [err |-> "",
          obj |-> [base EXCEPT
                     !.embedding = Embedding(num_virtual_tokens,
                                             num_layers * 2 * token_dim, seed),
                     !.attrs = {"embedding"}]]

\* the outcome of a forward call: status is "ok" or the exception raised;
\* branch is the branch of forward that ran; accessed the sub-module
\* attributes forward read; prefix_tokens, a (transform_1's output), x (the
\* residual sum) and past_key_values are forward's values, <<>> when not
\* computed
NoOut ==
    [status |-> "none", branch |-> "none", accessed |-> {},
     prefix_tokens |-> <<>>, a |-> <<>>, x |-> <<>>, past_key_values |-> <<>>]

\* mutant: the residual addition is left out
ResidualSum_Dropped(x, prefix_tokens) == [err |-> "", val |-> x]

\* x = (x + prefix_tokens)
ResidualSum(x, prefix_tokens) == TensorAdd(x, prefix_tokens)

\* forward's residual branch, after the embedding lookup gave prefix_tokens
forward_residual(obj, prefix_tokens) ==
    LET o2 == [NoOut EXCEPT !.status = "ok",
                            !.branch = "residual",
                            !.prefix_tokens = prefix_tokens,
                            !.accessed = {"embedding", "transform_1"}]
    IN
    IF "transform_1" \notin obj.attrs
    THEN [o2 EXCEPT !.status = "AttributeError"]
    ELSE
    LET a == Apply(obj.transform_1, prefix_tokens) IN
    IF a.err # "" THEN [o2 EXCEPT !.status = a.err]
    ELSE
    LET s == ResidualSum(a.val, prefix_tokens)
        o3 == [o2 EXCEPT !.a = a.val]
    IN
    IF s.err # "" THEN [o3 EXCEPT !.status = s.err]
    ELSE
    LET o4 == [o3 EXCEPT !.x = s.val,
                         !.accessed = {"embedding", "transform_1", "transform_2"}]
    IN
    IF "transform_2" \notin obj.attrs
    THEN [o4 EXCEPT !.status = "AttributeError"]
    ELSE
    LET p == Apply(obj.transform_2, s.val) IN
    IF p.err # "" THEN [o4 EXCEPT !.status = p.err]
    ELSE [o4 EXCEPT !.past_key_values = p.val]

\* mutant: the plain branch also adds the embedding to the transform's output
forward_plain_residual(obj, prefix_tokens) ==
    LET o2 == [NoOut EXCEPT !.status = "ok",
                            !.branch = "plain",
                            !.prefix_tokens = prefix_tokens,
                            !.accessed = {"embedding", "transform"}]
        p == Apply(obj.transform, prefix_tokens)
    IN
    IF "transform" \notin obj.attrs
    THEN [o2 EXCEPT !.status = "AttributeError"]
    ELSE IF p.err # "" THEN [o2 EXCEPT !.status = p.err]
    ELSE LET s == TensorAdd(p.val, prefix_tokens)
         IN  IF s.err # "" THEN [o2 EXCEPT !.status = s.err]
             ELSE [o2 EXCEPT !.past_key_values = s.val]

\* forward's plain-projection branch, after the embedding lookup
forward_plain(obj, prefix_tokens) ==
    LET o2 == [NoOut EXCEPT !.status = "ok",
                            !.branch = "plain",
                            !.prefix_tokens = prefix_tokens,
                            !.accessed = {"embedding", "transform"}]
    IN
    IF "transform" \notin obj.attrs
    THEN [o2 EXCEPT !.status = "AttributeError"]
    ELSE
    LET p == Apply(obj.transform, prefix_tokens) IN
    IF p.err # "" THEN [o2 EXCEPT !.status = p.err]
    ELSE [o2 EXCEPT !.past_key_values = p.val]

\* mutant: out-of-range indices are clamped into the table instead of raising
forward_raw_clamped(obj, idx) ==
    LET n == obj.embedding.num_embeddings
        clamp(v) == IF v < 0 THEN 0 ELSE IF v >= n THEN n - 1 ELSE v
        e == EmbeddingLookup(obj.embedding,
                             [b \in 1..Len(idx) |->
                                [i \in 1..Len(idx[b]) |-> clamp(idx[b][i])]])
    IN  [NoOut EXCEPT !.accessed = {"embedding"}, !.branch = "raw",
                      !.status = "ok", !.past_key_values = e.val]

\* mutant: the lookup result is zeroed on every second call (a dropout-like
\* dependence on hidden call state)
forward_raw_stateful(obj, idx) ==
    LET e == EmbeddingLookup(obj.embedding, idx)
        o0 == [NoOut EXCEPT !.accessed = {"embedding"}, !.branch = "raw"]
        zero(t) == [b \in 1..Len(t) |-> [n \in 1..Len(t[b]) |->
                      [i \in 1..Len(t[b][n]) |-> 0]]]
    IN
    IF e.err # "" THEN [o0 EXCEPT !.status = e.err]
    ELSE [o0 EXCEPT !.status = "ok",
                    !.past_key_values =
                        IF ncalls % 2 = 1 THEN zero(e.val) ELSE e.val]

\* forward's branch without projection
forward_raw(obj, idx) ==
    LET e == EmbeddingLookup(obj.embedding, idx)
        o0 == [NoOut EXCEPT !.accessed = {"embedding"}, !.branch = "raw"]
    IN
    IF e.err # "" THEN [o0 EXCEPT !.status = e.err]
    ELSE [o0 EXCEPT !.status = "ok", !.past_key_values = e.val]

\* PrefixEncoder.forward(prefix)
forward(obj, idx) ==
    IF obj.prefix_projection
    THEN LET e == EmbeddingLookup(obj.embedding, idx) IN
         IF e.err # ""
         THEN [NoOut EXCEPT !.status = e.err,
                            !.branch = "projection",
                            !.accessed = {"embedding"}]
         ELSE IF obj.use_res_connect \/ obj.use_res_block
         THEN forward_residual(obj, e.val)
         ELSE forward_plain(obj, e.val)
    ELSE forward_raw(obj, idx)

\* ---------------------------------------------------------------- inputs
\* index tensors of shape (batch, num_virtual_tokens), batch 1 or MaxBatch: the
\* row 0..n-1 repeated batch times, with at most one entry of the last row
\* replaced by a value of -1..n
Prefixes(n) ==
    LET base(bt) == [b \in 1..bt |-> [i \in 1..n |-> i - 1]]
    IN  UNION {
          {base(bt)} \cup
          {[base(bt) EXCEPT ![bt][i] = v] : i \in 1..n, v \in (0 - 1)..n}
          : bt \in {1, MaxBatch}}

InRange(idx, n) ==
    \A b \in 1..Len(idx) : \A i \in 1..Len(idx[b]) : idx[b][i] >= 0 /\ idx[b][i] < n

\* ---------------------------------------------------------------- actions
Init ==
    /\ pc = "config"
    /\ config \in PrefixTuningConfig
    /\ self = NoEncoder
    /\ error = ""
    /\ prefix = <<>>
    /\ out = NoOut
    /\ ncalls = 0
    /\ repeat = FALSE

\* prefix_encoder = PrefixEncoder(config)
Construct ==
    /\ pc = "config"
    /\ \E seed \in {0, MaxSeed} :
          LET r == PrefixEncoder(config, seed)
          IN  IF r.err = ""
              THEN /\ pc' = "ready"
                   /\ self' = r.obj
                   /\ error' = ""
              ELSE /\ pc' = "ctor_error"
                   /\ self' = NoEncoder
                   /\ error' = r.err
    /\ UNCHANGED <<config, prefix, out, ncalls, repeat>>

\* mutant: forward stores its result on the module
ForwardCaching ==
    /\ pc = "ready"
    /\ ncalls < MaxCalls
    /\ \E p \in Prefixes(config.num_virtual_tokens) :
          /\ prefix' = p
          /\ out' = forward(self, p)
          /\ repeat' = (ncalls > 0 /\ p = prefix)
          /\ self' = [self EXCEPT !.attrs = @ \cup {"past_key_values"}]
    /\ ncalls' = ncalls + 1
    /\ UNCHANGED <<pc, config, error>>

\* past_key_values = prefix_encoder(prefix)
Forward ==
    /\ pc = "ready"
    /\ ncalls < MaxCalls
    /\ \E p \in Prefixes(config.num_virtual_tokens) :
          /\ prefix' = p
          /\ out' = forward(self, p)
          /\ repeat' = (ncalls > 0 /\ p = prefix)
    /\ ncalls' = ncalls + 1
    /\ UNCHANGED <<pc, config, self, error>>

Next == Construct \/ Forward

Spec == Init /\ [][Next]_vars

\* ------------------------------------------------------------ properties
\* construction took the projection branch
Projecting == config.prefix_projection /\ ~config.inference_mode

\* the encoder was constructed and forward has been called
Called == pc = "ready" /\ ncalls > 0

ExpectedShape ==
    <<Len(prefix), config.num_virtual_tokens,
      2 * config.num_layers * config.token_dim>>

\* the rows of the embedding table the latest input selects
Looked == [b \in 1..Len(prefix) |->
             [n \in 1..Len(prefix[b]) |-> self.embedding.weight[prefix[b][n] + 1]]]

\* <<op, in_features, out_features>> of every layer of a module
Sig(layers) ==
    [k \in 1..Len(layers) |->
        <<layers[k].op, layers[k].in_features, layers[k].out_features>>]

IsIdentity(layers) ==
    /\ Len(layers) = 1
    /\ layers[1].op = "Linear"
    /\ \A o \in 1..layers[1].out_features :
          /\ layers[1].bias[o] = 0
          /\ \A i \in 1..layers[1].in_features :
                layers[1].weight[o][i] = (IF o = i THEN 1 ELSE 0)

\* C1 (as stated): with prefix_projection = false or inference_mode = true,
\* construction succeeds and every forward call on in-range indices of shape
\* (batch, num_virtual_tokens) returns a tensor of shape
\* (batch, num_virtual_tokens, 2*num_layers*token_dim).
C1_DirectModeForwardShape ==
    (~config.prefix_projection \/ config.inference_mode) =>
        /\ pc # "ctor_error"
        /\ (Called /\ InRange(prefix, config.num_virtual_tokens)) =>
              /\ out.status = "ok"
              /\ Shape(out.past_key_values) = ExpectedShape

\* C2: with prefix_projection = true, inference_mode = false and
\* encoder_hidden_size set, in each of the three topologies forward on in-range
\* indices of shape (batch, num_virtual_tokens) returns a tensor of shape
\* (batch, num_virtual_tokens, 2*num_layers*token_dim).
C2_ProjectionForwardShape ==
    (Projecting /\ config.encoder_hidden_size # None) =>
        /\ pc # "ctor_error"
        /\ (Called /\ InRange(prefix, config.num_virtual_tokens)) =>
              /\ out.status = "ok"
              /\ Shape(out.past_key_values) = ExpectedShape

C2_Witness ==
    /\ Called
    /\ Projecting
    /\ config.use_residual_block /\ ~config.use_residual_connect
    /\ config.encoder_hidden_size # None
    /\ config.encoder_hidden_size # config.token_dim
    /\ config.num_layers = 2 /\ config.token_dim = 2
    /\ Len(prefix) = 2
    /\ InRange(prefix, config.num_virtual_tokens)
    /\ out.status = "ok"
    /\ Shape(out.past_key_values) = <<2, config.num_virtual_tokens, 8>>

\* C3 (as stated): with encoder_hidden_size = None, construction of the
\* residual-block and plain topologies fails at construction time with a
\* configuration error raised by an explicit validation; on the paths that do
\* not need encoder_hidden_size construction succeeds.
C3_MissingHiddenSizeIsConfigurationError ==
    (pc # "config" /\ config.encoder_hidden_size = None) =>
        IF Projecting /\ ~config.use_residual_connect
        THEN pc = "ctor_error" /\ error = "ConfigurationError"
        ELSE pc = "ready"

\* C4: in every mode a forward call fails with the out-of-range error
\* (IndexError) and returns no tensor when some index is negative or
\* >= num_virtual_tokens, and does not raise that error when all indices lie in
\* [0, num_virtual_tokens).
C4_IndexRangeCheck ==
    Called =>
        /\ (out.status = "IndexError") <=> ~InRange(prefix, config.num_virtual_tokens)
        /\ ~InRange(prefix, config.num_virtual_tokens) => out.past_key_values = <<>>

C4_Witness ==
    /\ Called
    /\ Projecting
    /\ \E b \in 1..Len(prefix) : \E n \in 1..Len(prefix[b]) :
          /\ prefix[b][n] = config.num_virtual_tokens
          /\ \A m \in 1..Len(prefix[b]) : m # n => prefix[b][m] = m - 1
    /\ out.status = "IndexError"
    /\ out.past_key_values = <<>>

C6_TopologyPrecedence ==
    LET D == config.token_dim
        H == config.encoder_hidden_size
        W == 2 * config.num_layers * config.token_dim
        StageB == << <<"Tanh", 0, 0>>, <<"Linear", D, W>> >>
    IN
    (pc # "config" /\ Projecting) =>
        /\ (config.use_residual_connect => pc = "ready")
        /\ pc = "ready" =>
              /\ self.embedding.num_embeddings = config.num_virtual_tokens
              /\ self.embedding.embedding_dim = D
              /\ IF config.use_residual_connect
                 THEN /\ self.attrs = {"embedding", "transform_1", "transform_2"}
                      /\ Sig(self.transform_1) = << <<"Linear", D, D>> >>
                      /\ Sig(self.transform_2) = StageB
                      /\ self.transform = <<>>
                 ELSE IF config.use_residual_block
                 THEN /\ self.attrs = {"embedding", "transform_1", "transform_2"}
                      /\ Sig(self.transform_1) =
                            << <<"Linear", D, H>>, <<"ReLU", 0, 0>>,
                               <<"Linear", H, D>>, <<"LayerNorm", D, D>> >>
                      /\ Sig(self.transform_2) = StageB
                      /\ self.transform = <<>>
                 ELSE /\ self.attrs = {"embedding", "transform"}
                      /\ Sig(self.transform) =
                            << <<"Linear", D, H>>, <<"Tanh", 0, 0>>,
                               <<"Linear", H, W>> >>
                      /\ self.transform_1 = <<>>
                      /\ self.transform_2 = <<>>

C6_Witness ==
    /\ pc = "ready"
    /\ Projecting
    /\ config.use_residual_connect /\ config.use_residual_block
    /\ config.encoder_hidden_size # None
    /\ config.encoder_hidden_size # config.token_dim
    /\ Len(self.transform_1) = 1
    /\ "transform" \notin self.attrs

\* C7: in residual-connect or residual-block mode forward computes
\* stageB(stageA(E) + E), E the embedding lookup: the tensor fed to stage B is
\* the element-wise sum of stage A's output and E (2*E when stage A is the
\* identity), and the output is stage B of that sum.
C7_ResidualSumFeedsStageB ==
    (Called /\ Projecting /\ out.status = "ok"
       /\ (config.use_residual_connect \/ config.use_residual_block)) =>
        /\ out.branch = "residual"
        /\ out.prefix_tokens = Looked
        /\ out.a = Apply(self.transform_1, Looked).val
        /\ Shape(out.x) = Shape(Looked)
        /\ \A b \in 1..Len(prefix) : \A n \in 1..Len(prefix[b]) :
              \A d \in 1..config.token_dim :
                 /\ out.x[b][n][d] = out.a[b][n][d] + Looked[b][n][d]
                 /\ IsIdentity(self.transform_1) => out.x[b][n][d] = 2 * Looked[b][n][d]
        /\ \A b \in 1..Len(prefix) : \A n \in 1..Len(prefix[b]) :
              \A o \in 1..(2 * config.num_layers * config.token_dim) :
                 out.past_key_values[b][n][o] =
                    Sum([i \in 1..config.token_dim |->
                           self.transform_2[2].weight[o][i] * Sgn(out.x[b][n][i])])
                    + self.transform_2[2].bias[o]

C7_Witness ==
    /\ Called
    /\ Projecting
    /\ config.use_residual_connect
    /\ IsIdentity(self.transform_1)
    /\ out.status = "ok"
    /\ config.token_dim = 2
    /\ out.x[1][1][1] = 2 * self.embedding.weight[prefix[1][1] + 1][1]
    /\ out.x[1][1][1] # 0

\* C8: in the plain-projection branch forward's output is the single
\* sequential transform applied directly to the embedding lookup, with no
\* residual addition; with prefix_projection = false the output is the
\* embedding lookup itself.
C8_PlainAndRawBranches ==
    /\ (Called /\ Projecting /\ out.status = "ok"
          /\ ~config.use_residual_connect /\ ~config.use_residual_block) =>
           /\ out.branch = "plain"
           /\ out.a = <<>> /\ out.x = <<>>
           /\ \A b \in 1..Len(prefix) : \A n \in 1..Len(prefix[b]) :
                 \A o \in 1..(2 * config.num_layers * config.token_dim) :
                    out.past_key_values[b][n][o] =
                       Sum([h \in 1..config.encoder_hidden_size |->
                              self.transform[3].weight[o][h]
                              * Sgn(Sum([i \in 1..config.token_dim |->
                                           self.transform[1].weight[h][i]
                                           * Looked[b][n][i]])
                                    + self.transform[1].bias[h])])
                       + self.transform[3].bias[o]
    /\ (Called /\ ~config.prefix_projection /\ out.status = "ok") =>
           /\ out.branch = "raw"
           /\ out.a = <<>> /\ out.x = <<>>
           /\ out.past_key_values = Looked

C8_Witness ==
    /\ Called
    /\ Projecting
    /\ ~config.use_residual_connect /\ ~config.use_residual_block
    /\ out.status = "ok"
    /\ out.branch = "plain"
    /\ config.token_dim = 2
    /\ \E d \in 1..Width(out.past_key_values) :
          out.past_key_values[1][1][d] # self.transform[3].bias[d]

\* C9: a forward call, successful or failing, leaves the encoder's topology,
\* mode flags, embedding table and parameter values unchanged.
C9_ForwardLeavesEncoderUnchanged ==
    [][ncalls' # ncalls =>
          (self' = self /\ config' = config /\ pc' = pc /\ error' = error)]_vars

C9_Witness ==
    /\ Called
    /\ ncalls >= 2
    /\ out.status = "IndexError"
    /\ self.attrs = {"embedding", "transform_1", "transform_2"}
    /\ self.use_res_block

\* C10 (as stated): the branch forward takes agrees with the branch
\* construction took: forward reads a projection stage only if construction
\* allocated it and applies it only to an embedding of width token_dim, and
\* forward returns the raw lookup exactly when construction allocated the
\* full-width embedding table.
C10_ForwardBranchMatchesConstruction ==
    Called =>
        /\ out.accessed \subseteq self.attrs
        /\ (out.branch # "raw") => self.embedding.embedding_dim = config.token_dim
        /\ (out.branch = "raw") <=>
              (self.embedding.embedding_dim
                 = 2 * config.num_layers * config.token_dim)

====
